---- MODULE Spec2Model ----
(***************************************************************************)
(* Excel-Formatter: removal of consecutive duplicate rows from a           *)
(* spreadsheet.  Two programs are modelled:                                *)
(*   - the Flask service, src/app.py (upload_file and its                  *)
(*     remove_consecutive_duplicates, comparison columns B, C and G);      *)
(*   - the batch script, src/remove_duplicates.py (comparison columns B    *)
(*     and C).                                                             *)
(*                                                                         *)
(* Values.  A cell is a record [kind, v]:                                  *)
(*     kind = "null"   a missing cell / NaN                  (v = 0)       *)
(*     kind = "int"    an integer                            (v \in Int)   *)
(*     kind = "float"  an integral float, 5.0                (v \in Int)   *)
(*     kind = "str"    a string, as a sequence of characters (v \in Seq)   *)
(* A spreadsheet file is [wellformed, header, blocks]; blocks is the run-  *)
(* length encoding of its data rows (a row and the number of times it is   *)
(* repeated), so that a file of 50,001 rows is a small value; read_excel   *)
(* expands it to one DataFrame row per data row.  A DataFrame is           *)
(* [columns, rows], each row [index, cells], index being the pandas label. *)
(***************************************************************************)
EXTENDS Integers, Sequences, FiniteSets, TLC

\* ------------------------------------------------------------------------
\* Bounds of the model and constants of the program
\* ------------------------------------------------------------------------

\* longest enumerated file, in data rows
MaxLen == 3

\* src/app.py:66   if initial_rows > 50000
MAX_ROWS == 50000
\* src/app.py:70   if len(df.columns) < 7
SERVICE_MIN_COLS == 7
\* src/remove_duplicates.py:27   if len(df.columns) < 3
SCRIPT_MIN_COLS == 3
\* zero-based ordinal positions df.columns[1], df.columns[2], df.columns[6]
COL_B == 1
COL_C == 2
COL_G == 6

\* ------------------------------------------------------------------------
\* Cells and strings
\* ------------------------------------------------------------------------

Null == [kind |-> "null", v |-> 0]
IntCell(n) == [kind |-> "int", v |-> n]
FloatCell(n) == [kind |-> "float", v |-> n]
StrCell(s) == [kind |-> "str", v |-> s]

IsNull(c) == c.kind = "null"
IsNumber(c) == c.kind \in {"int", "float"}

DigitChars == <<"0", "1", "2", "3", "4", "5", "6", "7", "8", "9">>

\* str(n) for a Python int
RECURSIVE IntToStr(_)
IntToStr(n) ==
    IF n < 0 THEN <<"-">> \o IntToStr(0 - n)
    ELSE IF n < 10 THEN <<DigitChars[n + 1]>>
    ELSE IntToStr(n \div 10) \o <<DigitChars[(n % 10) + 1]>>

\* str(x) for an integral Python float: 5.0 -> "5.0"
FloatToStr(n) == IntToStr(n) \o <<".", "0">>

\* ------------------------------------------------------------------------
\* pandas: reading, normalising, comparing, writing
\* ------------------------------------------------------------------------

\* a sequence given by a rule, as the tuple of its elements (each element
\* is then computed once, as in the arrays pandas builds)
Tuple(seq) == seq \o <<>>

\* the data rows of a file, one per spreadsheet row
RECURSIVE Expand(_)
Expand(blocks) ==
    IF blocks = <<>> THEN <<>>
    ELSE LET b == Head(blocks)
         IN  [i \in 1..b.times |-> b.row] \o Expand(Tail(blocks))

\* the dtype pandas infers for a column of cells read from a sheet
InferDtype(col) ==
    IF Len(col) = 0 \/ \E i \in 1..Len(col) : col[i].kind = "str" THEN "object"
    ELSE IF \E i \in 1..Len(col) : col[i].kind = "null" THEN "float64"
    ELSE "int64"

\* pd.read_excel on a well-formed file: a RangeIndex, and the integers of a
\* numeric column that has missing cells become floats (float64)
read_excel(file) ==
    LET raw == Expand(file.blocks)
        n == Len(raw)
        ncols == Len(file.header)
        dtype == Tuple([c \in 1..ncols |-> InferDtype([i \in 1..n |-> raw[i][c]])])
        conv(c, cell) ==
            IF dtype[c] = "float64" /\ cell.kind = "int" THEN FloatCell(cell.v)
            ELSE cell
    IN  [columns |-> file.header,
         rows |-> Tuple([i \in 1..n |->
                     [index |-> i - 1,
                      cells |-> [c \in 1..ncols |-> conv(c, raw[i][c])]]])]

\* Series.fillna('') on one cell
fillna(cell) == IF IsNull(cell) THEN StrCell(<<>>) ELSE cell

\* Series.astype(str) on one cell
astype_str(cell) ==
    CASE cell.kind = "int" -> StrCell(IntToStr(cell.v))
      [] cell.kind = "float" -> StrCell(FloatToStr(cell.v))
      [] cell.kind = "null" -> StrCell(<<"n", "a", "n">>)
      [] OTHER -> cell

\* df[col] = df[col].fillna('').astype(str) for the column at 0-based pos
NormalizeColumn(df, pos) ==
    [df EXCEPT !.rows =
        Tuple([i \in 1..Len(df.rows) |->
            [df.rows[i] EXCEPT !.cells[pos + 1] = astype_str(fillna(@))]])]

\* elementwise a != b of two cells; NaN is unequal to everything, itself
\* included, and a number is never equal to a string
CellNe(a, b) ==
    IF IsNull(a) \/ IsNull(b) THEN TRUE
    ELSE IF IsNumber(a) /\ IsNumber(b) THEN a.v # b.v
    ELSE IF a.kind = "str" /\ b.kind = "str" THEN a.v # b.v
    ELSE TRUE

\* faulty variant of ColumnNeShift: shift(-1), the comparison with the next row
ColumnNeShiftNext(df, pos, i) ==
    LET shifted == IF i = Len(df.rows) THEN Null ELSE df.rows[i + 1].cells[pos + 1]
    IN  CellNe(df.rows[i].cells[pos + 1], shifted)

\* (df[col] != df[col].shift(1))[i]: shift(1) puts NaN in front
ColumnNeShift(df, pos, i) ==
    LET shifted == IF i = 1 THEN Null ELSE df.rows[i - 1].cells[pos + 1]
    IN  CellNe(df.rows[i].cells[pos + 1], shifted)

\* df[mask].copy(): boolean indexing keeps the rows, their labels and order
BoolIndex(df, mask) ==
    [df EXCEPT !.rows = SelectSeq(df.rows, LAMBDA r : mask[r.index + 1])]

\* what DataFrame.to_excel(index=False) stores for a cell: openpyxl writes
\* an empty string as an empty cell and a number as a number
to_excel_cell(cell) ==
    CASE cell.kind = "null" -> Null
      [] cell.kind = "str" /\ cell.v = <<>> -> Null
      [] cell.kind = "float" -> IntCell(cell.v)
      [] OTHER -> cell

\* faulty variant of to_excel: index=False forgotten, the labels become a column
to_excel_with_index(df) ==
    [wellformed |-> "ok",
     header |-> <<"Unnamed: 0">> \o df.columns,
     blocks |-> Tuple([i \in 1..Len(df.rows) |->
                   [row |-> <<IntCell(df.rows[i].index)>> \o
                            [c \in 1..Len(df.columns) |->
                               to_excel_cell(df.rows[i].cells[c])],
                    times |-> 1]])]

\* DataFrame.to_excel(index=False): header and cells, the index is dropped
to_excel(df) ==
    [wellformed |-> "ok",
     header |-> df.columns,
     blocks |-> Tuple([i \in 1..Len(df.rows) |->
                   [row |-> [c \in 1..Len(df.columns) |->
                               to_excel_cell(df.rows[i].cells[c])],
                    times |-> 1]])]

\* ------------------------------------------------------------------------
\* src/app.py: remove_consecutive_duplicates(file_stream)
\* ------------------------------------------------------------------------

NoFrame == [columns |-> <<>>, rows |-> <<>>]
NoStats == [initial_rows |-> -1, final_rows |-> -1, removed_rows |-> -1,
            cols |-> <<>>]
NoException == [type |-> "none", msg |-> ""]

TooLargeMsg == "File too large (N rows). Please use a file with fewer than 50,000 rows for the free tier."
TooFewColumnsMsg == "The file must have at least 7 columns to access Column G."

\* check_memory_usage(): one line of log, whether psutil works or not
MEM == "memory"

\* pd.read_excel raises on bytes that are no workbook: ValueError ("Excel
\* file format cannot be determined") or another exception (BadZipFile)
DecodeException(file) ==
    IF file.wellformed = "bad_value"
    THEN [type |-> "ValueError", msg |-> "Excel file format cannot be determined"]
    ELSE [type |-> "Exception", msg |-> "File is not a zip file"]

\* the except clause of remove_consecutive_duplicates: log, collect, re-raise
Reraise(exc, log) ==
    [exc |-> exc,
     log |-> log \o <<"Error processing file">>,
     df_cleaned |-> NoFrame,
     stats |-> NoStats]

\* faulty variant of TooLarge: the ceiling itself is rejected
TooLargeInclusive(initial_rows) == initial_rows >= MAX_ROWS

\* if initial_rows > 50000
TooLarge(initial_rows) == initial_rows > MAX_ROWS

\* faulty variant of TooFewColumns: a dataset of exactly 7 columns is rejected
TooFewColumnsInclusive(df) == Len(df.columns) <= SERVICE_MIN_COLS

\* if len(df.columns) < 7
TooFewColumns(df) == Len(df.columns) < SERVICE_MIN_COLS

\* for col in [col_b, col_c, col_g]: df[col] = df[col].fillna('').astype(str)
Normalize(df) ==
    NormalizeColumn(NormalizeColumn(NormalizeColumn(df, COL_B), COL_C), COL_G)

\* faulty variant of KeepMask: column G is left out of the comparison
KeepMaskBC(df, i) ==
    \/ ColumnNeShift(df, COL_B, i)
    \/ ColumnNeShift(df, COL_C, i)

\* faulty variant of KeepMask: the three comparisons joined by & in place of |
KeepMaskAll(df, i) ==
    /\ ColumnNeShift(df, COL_B, i)
    /\ ColumnNeShift(df, COL_C, i)
    /\ ColumnNeShift(df, COL_G, i)

\* mask[i]: the row differs from the previous one in column B, C or G
KeepMask(df, i) ==
    \/ ColumnNeShift(df, COL_B, i)
    \/ ColumnNeShift(df, COL_C, i)
    \/ ColumnNeShift(df, COL_G, i)

\* faulty variant of ServiceStats: initial_rows taken after the filter
ServiceStatsLate(df, df_cleaned) ==
    LET initial_rows == Len(df_cleaned.rows)
        final_rows == Len(df_cleaned.rows)
    IN  [initial_rows |-> initial_rows,
         final_rows |-> final_rows,
         removed_rows |-> initial_rows - final_rows,
         cols |-> <<df.columns[COL_B + 1], df.columns[COL_C + 1],
                    df.columns[COL_G + 1]>>]

\* final_rows, removed_rows and the stats dictionary
ServiceStats(df, df_cleaned) ==
    LET initial_rows == Len(df.rows)
        final_rows == Len(df_cleaned.rows)
    IN  [initial_rows |-> initial_rows,
         final_rows |-> final_rows,
         removed_rows |-> initial_rows - final_rows,
         cols |-> <<df.columns[COL_B + 1], df.columns[COL_C + 1],
                    df.columns[COL_G + 1]>>]

remove_consecutive_duplicates(file) ==
    LET log1 == <<"Starting file processing...", MEM>>
    IN  IF file.wellformed # "ok" THEN Reraise(DecodeException(file), log1)
        ELSE
        LET df == read_excel(file)
            log2 == log1 \o <<"Loaded DataFrame", MEM>>
        IN  IF TooLarge(Len(df.rows))
            THEN Reraise([type |-> "ValueError", msg |-> TooLargeMsg], log2)
            ELSE IF TooFewColumns(df)
            THEN Reraise([type |-> "ValueError", msg |-> TooFewColumnsMsg], log2)
            ELSE
            LET dfn == Normalize(df)
                log3 == log2 \o <<"Data types optimized", MEM>>
                mask == Tuple([i \in 1..Len(dfn.rows) |-> KeepMask(dfn, i)])
                df_cleaned == BoolIndex(dfn, mask)
                log4 == log3 \o <<"Duplicate removal completed", MEM>>
            IN  [exc |-> NoException,
                 log |-> log4 \o <<"Memory cleanup completed", MEM>>,
                 df_cleaned |-> df_cleaned,
                 stats |-> ServiceStats(dfn, df_cleaned)]

\* ------------------------------------------------------------------------
\* src/app.py: allowed_file(filename), on filenames as character sequences
\* ------------------------------------------------------------------------

UpperChars == <<"A", "B", "C", "D", "E", "F", "G", "H", "I", "J", "K", "L", "M",
                "N", "O", "P", "Q", "R", "S", "T", "U", "V", "W", "X", "Y", "Z">>
LowerChars == <<"a", "b", "c", "d", "e", "f", "g", "h", "i", "j", "k", "l", "m",
                "n", "o", "p", "q", "r", "s", "t", "u", "v", "w", "x", "y", "z">>

\* str.lower()
lower(s) ==
    [i \in 1..Len(s) |->
        IF \E k \in 1..26 : UpperChars[k] = s[i]
        THEN LowerChars[CHOOSE k \in 1..26 : UpperChars[k] = s[i]]
        ELSE s[i]]

\* filename.rsplit('.', 1)[1], for a filename that has a dot
rsplit_ext(s) ==
    LET last == CHOOSE i \in 1..Len(s) :
                    s[i] = "." /\ \A j \in (i + 1)..Len(s) : s[j] # "."
    IN  SubSeq(s, last + 1, Len(s))

ALLOWED_EXTENSIONS == {<<"x", "l", "s", "x">>, <<"x", "l", "s">>}

allowed_file(filename) ==
    /\ \E i \in 1..Len(filename) : filename[i] = "."
    /\ lower(rsplit_ext(filename)) \in ALLOWED_EXTENSIONS

\* ------------------------------------------------------------------------
\* src/remove_duplicates.py: remove_consecutive_duplicates and __main__
\* ------------------------------------------------------------------------

NoFile == [wellformed |-> "absent", header |-> <<>>, blocks |-> <<>>]

\* mask[i]: columns B and C as read, no normalisation
ScriptKeepMask(df, i) ==
    \/ ColumnNeShift(df, COL_B, i)
    \/ ColumnNeShift(df, COL_C, i)

\* if len(df.columns) < 3
ScriptTooFewColumns(df) == Len(df.columns) < SCRIPT_MIN_COLS

ScriptStats(df, df_cleaned) ==
    LET initial_rows == Len(df.rows)
        final_rows == Len(df_cleaned.rows)
    IN  [initial_rows |-> initial_rows,
         final_rows |-> final_rows,
         removed_rows |-> initial_rows - final_rows,
         cols |-> <<df.columns[COL_B + 1], df.columns[COL_C + 1]>>]

\* The run of the script on input_file; write_ok: whether to_excel succeeds.
\* Result: what was printed, the file left at output_file, the locals.
script_main(input_file, write_ok) ==
    LET out1 == <<"Reading data from">>
        failed(out, exc) ==
            [exc |-> exc, stdout |-> out, outfile |-> NoFile,
             df_cleaned |-> NoFrame, stats |-> NoStats]
    IN  IF input_file.wellformed = "absent"
        THEN failed(out1 \o <<"Error: input.xlsx not found in the current directory.",
                              "Please ensure the input file exists and try again.">>,
                    [type |-> "FileNotFoundError", msg |-> "input.xlsx"])
        ELSE IF input_file.wellformed # "ok"
        THEN failed(out1 \o <<"An error occurred">>, DecodeException(input_file))
        ELSE
        LET df == read_excel(input_file)
            out2 == out1 \o <<"Initial number of rows (excluding header)">>
        IN  IF ScriptTooFewColumns(df)
            THEN failed(out2 \o <<"Warning: The file has fewer than 3 columns. Cannot proceed.">>,
                        NoException)
            ELSE
            LET mask == Tuple([i \in 1..Len(df.rows) |-> ScriptKeepMask(df, i)])
                df_cleaned == BoolIndex(df, mask)
                stats == ScriptStats(df, df_cleaned)
                out3 == out2 \o <<"Comparing consecutive rows based on columns",
                                  "Removed consecutive duplicate row(s)",
                                  "Final number of rows (excluding header)",
                                  "Saving cleaned data to">>
            IN  IF write_ok
                THEN [exc |-> NoException,
                      stdout |-> out3 \o <<"Processing complete.">>,
                      outfile |-> to_excel(df_cleaned),
                      df_cleaned |-> df_cleaned,
                      stats |-> stats]
                ELSE [exc |-> [type |-> "Exception", msg |-> "to_excel"],
                      stdout |-> out3 \o <<"An error occurred">>,
                      outfile |-> NoFile,
                      df_cleaned |-> df_cleaned,
                      stats |-> stats]

\* ------------------------------------------------------------------------
\* src/app.py: upload_file()
\* ------------------------------------------------------------------------

Flash(category, msg, args) == [category |-> category, msg |-> msg, args |-> args]

NoFileSelectedMsg == "No file selected"
InvalidTypeMsg == "Invalid file type. Please upload an Excel file (.xlsx or .xls)"
GenericErrorMsg == "An error occurred while processing the file: "

Redirect == [kind |-> "redirect", target |-> "index", body |-> NoFile]
Attachment(file) == [kind |-> "attachment", target |-> "output_cleaned.xlsx", body |-> file]
NoResponse == [kind |-> "none", target |-> "", body |-> NoFile]

NotCalled == [exc |-> NoException, df_cleaned |-> NoFrame, stats |-> NoStats]

\* the three flash() calls on success
SuccessFlashes(stats) ==
    <<Flash("success", "Success! Removed consecutive duplicate(s).", <<stats.removed_rows>>),
      Flash("info", "Original rows -> Final rows", <<stats.initial_rows, stats.final_rows>>),
      Flash("info", "Compared columns", stats.cols)>>

\* except ValueError as ve / except Exception as e
ErrorFlash(exc) ==
    IF exc.type = "ValueError" THEN Flash("error", exc.msg, <<>>)
    ELSE Flash("error", GenericErrorMsg, <<exc.msg>>)

\* except Exception as writer_error: output.close(); del df_cleaned; raise.
\* df_cleaned is unbound once line 170 has deleted it, and the del of the
\* handler then raises UnboundLocalError in place of writer_error.
WriterErrorHandler(writer_error, df_cleaned_bound) ==
    IF df_cleaned_bound THEN writer_error
    ELSE [type |-> "UnboundLocalError", msg |-> "df_cleaned"]

\* The whole handler on one request.  r: what the call at line 155,
\* remove_consecutive_duplicates(file), does (it is looked at only when the
\* handler gets there); encode: how the ExcelWriter block ends ("ok",
\* "ValueError", "Exception"); send_ok: whether send_file returns.
\* Result: the response, the messages flashed by this request, the log
\* lines, what remove_consecutive_duplicates returned or raised, and the
\* exception caught by the handler's own except clauses.
upload_file_result(req, r, encode, send_ok) ==
    LET log0 == <<MEM>>
        rejected(msg) ==
            [response |-> Redirect, flashes |-> <<Flash("error", msg, <<>>)>>,
             log |-> log0, result |-> NotCalled, caught |-> NoException]
    IN  IF ~req.has_file THEN rejected(NoFileSelectedMsg)
        ELSE IF req.filename = <<>> THEN rejected(NoFileSelectedMsg)
        ELSE IF ~allowed_file(req.filename) THEN rejected(InvalidTypeMsg)
        ELSE
        LET res == [exc |-> r.exc, df_cleaned |-> r.df_cleaned, stats |-> r.stats]
            log1 == log0 \o r.log
            caught(exc, flashed) ==
                [response |-> Redirect,
                 flashes |-> flashed \o <<ErrorFlash(exc)>>,
                 log |-> log1,
                 result |-> res,
                 caught |-> exc]
        IN  IF r.exc.type # "none" THEN caught(r.exc, <<>>)
            ELSE IF encode # "ok"
            THEN caught(WriterErrorHandler([type |-> encode, msg |-> "to_excel"], TRUE),
                        <<>>)
            ELSE IF ~send_ok
            THEN caught(WriterErrorHandler([type |-> "Exception", msg |-> "send_file"], FALSE),
                        SuccessFlashes(r.stats))
            ELSE [response |-> Attachment(to_excel(r.df_cleaned)),
                  flashes |-> SuccessFlashes(r.stats),
                  log |-> log1,
                  result |-> res,
                  caught |-> NoException]

\* ------------------------------------------------------------------------
\* Inputs
\* ------------------------------------------------------------------------

Header7 == <<"Id", "Author", "Title", "D", "E", "F", "G">>

\* a data row of ncols cells with the given cells in columns A, B, C and G;
\* column D holds a number, column E is empty, column F holds a text
Row(ncols, a, b, c, g) ==
    SubSeq(<<a, b, c, IntCell(7), Null, StrCell(<<"f">>), g>>, 1, ncols)

P == StrCell(<<"p">>)
Q == StrCell(<<"q">>)
X == StrCell(<<"X">>)

CellsB == {Null, IntCell(5), StrCell(<<"5">>)}
CellsC == {X, Null}

\* the rows files are enumerated from: with one value of column A, every
\* pair of B and C with G = 1 and every B with C = "X" and G = 2; and one
\* row with a second value of column A
RowDomain(ncols) ==
    {Row(ncols, P, b, c, IntCell(1)) : b \in CellsB, c \in CellsC}
    \cup {Row(ncols, P, b, X, IntCell(2)) : b \in CellsB}
    \cup {Row(ncols, Q, Null, X, IntCell(1))}

FileOf(ncols, rows) ==
    [wellformed |-> "ok",
     header |-> SubSeq(Header7, 1, ncols),
     blocks |-> [i \in 1..Len(rows) |-> [row |-> rows[i], times |-> 1]]]

\* every file of up to MaxLen data rows over RowDomain
EnumFiles(ncols) ==
    {FileOf(ncols, rows) :
        rows \in UNION {[1..k -> RowDomain(ncols)] : k \in 0..MaxLen}}

\* the scenario of the specification, by columns B, C, G:
\* (A,X,1) (A,X,1) (A,X,2) (B,X,1) (B,X,1) (B,X,1)
ScenarioFile ==
    LET a == StrCell(<<"A">>)
        b == StrCell(<<"B">>)
        keys == <<<<a, X, IntCell(1)>>, <<a, X, IntCell(1)>>, <<a, X, IntCell(2)>>,
                  <<b, X, IntCell(1)>>, <<b, X, IntCell(1)>>, <<b, X, IntCell(1)>>>>
    IN  FileOf(7, [i \in 1..6 |->
                     Row(7, IntCell(i), keys[i][1], keys[i][2], keys[i][3])])

\* n copies of one row
BulkFile(ncols, n) ==
    [wellformed |-> "ok",
     header |-> SubSeq(Header7, 1, ncols),
     blocks |-> <<[row |-> Row(ncols, P, StrCell(<<"5">>), X, StrCell(<<"1">>)),
                   times |-> n]>>]

BulkFiles ==
    {BulkFile(ncols, n) : ncols \in {SERVICE_MIN_COLS - 1, SERVICE_MIN_COLS},
                          n \in {MAX_ROWS, MAX_ROWS + 1}}

\* bytes that are no workbook
CorruptFiles ==
    {[wellformed |-> w, header |-> <<>>, blocks |-> <<>>] : w \in {"bad_value", "bad"}}

GoodName == <<"d", ".", "x", "l", "s", "x">>
DownloadName == <<"o", "u", "t", "p", "u", "t", "_", "c", "l", "e", "a", "n", "e", "d",
                  ".", "x", "l", "s", "x">>
InputName == <<"i", "n", "p", "u", "t", ".", "x", "l", "s", "x">>

Filenames ==
    {<<>>,
     GoodName,
     <<"D", ".", "X", "L", "S", "X">>,
     <<"o", ".", "x", "l", "s">>,
     <<"a", ".", "c", "s", "v">>,
     <<"x", "l", "s", "x">>,
     <<"x", ".", "x", "l", "s", "x", ".", "c">>,
     <<"a", ".", "b", ".", "X", "l", "s">>}

\* a few files for the requests that vary the upload form
SampleFiles == {ScenarioFile, FileOf(7, <<>>), FileOf(6, <<>>)} \cup CorruptFiles

\* the uploads: bodies within MAX_CONTENT_LENGTH (src/app.py:21); a larger
\* body is answered by Flask before upload_file reads request.files
ServiceRequests ==
    {[has_file |-> TRUE, filename |-> GoodName, file |-> f] :
        f \in EnumFiles(SERVICE_MIN_COLS) \cup EnumFiles(SERVICE_MIN_COLS - 1)
              \cup CorruptFiles \cup {ScenarioFile}}
    \cup {[has_file |-> h, filename |-> n, file |-> f] :
            h \in BOOLEAN, n \in Filenames, f \in SampleFiles}

BulkRequests ==
    {[has_file |-> TRUE, filename |-> GoodName, file |-> f] : f \in BulkFiles}

ScriptRequests ==
    {[has_file |-> TRUE, filename |-> InputName, file |-> f] :
        f \in EnumFiles(SCRIPT_MIN_COLS) \cup EnumFiles(SCRIPT_MIN_COLS - 1)
              \cup CorruptFiles \cup {ScenarioFile, NoFile}}

\* ------------------------------------------------------------------------
\* State
\* ------------------------------------------------------------------------

VARIABLES
    prog,       \* "service" (src/app.py) or "script" (src/remove_duplicates.py)
    pc,         \* "received": the request or input awaits; "done": handled
    run,        \* 1, or 2 when the output of run 1 is processed again
    request,    \* the upload (has_file, filename, file) or the script's input
    response,   \* the service's response
    flashes,    \* the messages flashed while handling the request
    log,        \* the logger's lines
    result,     \* what the deduplicator returned or raised (df_cleaned, stats)
    caught,     \* the exception caught by upload_file or by __main__
    stdout,     \* what the script printed
    outfile,    \* the file at the script's output path
    first       \* run 2 only: df_cleaned and stats of run 1

vars == <<prog, pc, run, request, response, flashes, log, result, caught,
          stdout, outfile, first>>

NoFirst == [df_cleaned |-> NoFrame, stats |-> NoStats]

Fresh ==
    /\ pc = "received"
    /\ run = 1
    /\ response = NoResponse
    /\ flashes = <<>>
    /\ log = <<>>
    /\ result = NotCalled
    /\ caught = NoException
    /\ stdout = <<>>
    /\ outfile = NoFile
    /\ first = NoFirst

Init ==
    /\ \/ prog = "service" /\ request \in ServiceRequests
       \/ prog = "script" /\ request \in ScriptRequests
       \/ prog = "service" /\ request \in BulkRequests
    /\ Fresh

\* POST /upload: the handler runs to its response
upload_file ==
    /\ prog = "service"
    /\ pc = "received"
    /\ \E r \in {remove_consecutive_duplicates(request.file)},
          encode \in {"ok", "ValueError", "Exception"}, send_ok \in BOOLEAN :
         \E u \in {upload_file_result(request, r, encode, send_ok)} :
             /\ response' = u.response
             /\ flashes' = u.flashes
             /\ log' = u.log
             /\ result' = u.result
             /\ caught' = u.caught
    /\ pc' = "done"
    /\ UNCHANGED <<prog, run, request, stdout, outfile, first>>

\* python remove_duplicates.py: the script runs to its exit
script_run ==
    /\ prog = "script"
    /\ pc = "received"
    /\ \E write_ok \in BOOLEAN :
         \E r \in {script_main(request.file, write_ok)} :
             /\ stdout' = r.stdout
             /\ outfile' = r.outfile
             /\ result' = [exc |-> NoException, df_cleaned |-> r.df_cleaned,
                           stats |-> r.stats]
             /\ caught' = r.exc
    /\ pc' = "done"
    /\ UNCHANGED <<prog, run, request, response, flashes, log, first>>

\* the client uploads the attachment it has just downloaded
Reupload ==
    /\ prog = "service"
    /\ pc = "done"
    /\ run = 1
    /\ response.kind = "attachment"
    /\ request' = [has_file |-> TRUE, filename |-> DownloadName, file |-> response.body]
    /\ first' = [df_cleaned |-> result.df_cleaned, stats |-> result.stats]
    /\ run' = 2
    /\ pc' = "received"
    /\ response' = NoResponse
    /\ flashes' = <<>>
    /\ log' = <<>>
    /\ result' = NotCalled
    /\ caught' = NoException
    /\ UNCHANGED <<prog, stdout, outfile>>

\* the script is run again on the file it has written
Rerun ==
    /\ prog = "script"
    /\ pc = "done"
    /\ run = 1
    /\ outfile.wellformed = "ok"
    /\ request' = [request EXCEPT !.file = outfile]
    /\ first' = [df_cleaned |-> result.df_cleaned, stats |-> result.stats]
    /\ run' = 2
    /\ pc' = "received"
    /\ stdout' = <<>>
    /\ outfile' = NoFile
    /\ result' = NotCalled
    /\ caught' = NoException
    /\ UNCHANGED <<prog, response, flashes, log>>

Next == upload_file \/ script_run \/ Reupload \/ Rerun

Spec == Init /\ [][Next]_vars

\* the same programs on the enumerated files only (no 50,000-row file)
InitEnum ==
    /\ \/ prog = "service" /\ request \in ServiceRequests
       \/ prog = "script" /\ request \in ScriptRequests
    /\ Fresh

SpecEnum == InitEnum /\ [][Next]_vars

\* ------------------------------------------------------------------------
\* Vocabulary of the properties
\* ------------------------------------------------------------------------

\* the number of data rows of a file
RECURSIVE NRows(_)
NRows(file_blocks) ==
    IF file_blocks = <<>> THEN 0
    ELSE Head(file_blocks).times + NRows(Tail(file_blocks))

\* the deduplicator has returned a dataset and its stats
Returned == pc = "done" /\ result.stats # NoStats
ServiceReturned == prog = "service" /\ Returned

\* the request passes the checks of the upload form
FormOk(req) == req.has_file /\ req.filename # <<>> /\ allowed_file(req.filename)

\* the dataset of the request, as decoded
InputFrame == read_excel(request.file)

\* the normalized ComparisonKey of each row of a frame: columns at index 1,
\* 2 and 6, null replaced by '', then coerced to string
ComparisonKeys(df) ==
    Tuple([i \in 1..Len(df.rows) |->
             <<astype_str(fillna(df.rows[i].cells[COL_B + 1])).v,
               astype_str(fillna(df.rows[i].cells[COL_C + 1])).v,
               astype_str(fillna(df.rows[i].cells[COL_G + 1])).v>>])

\* the labels (0-based input positions) of the rows returned, in output order
OutIndex == Tuple([j \in 1..Len(result.df_cleaned.rows) |-> result.df_cleaned.rows[j].index])
OutIndexSet == {OutIndex[j] : j \in 1..Len(OutIndex)}

\* two cells hold the same value: both missing, the same number, or the
\* same text
CellSame(a, b) ==
    \/ IsNull(a) /\ IsNull(b)
    \/ IsNumber(a) /\ IsNumber(b) /\ a.v = b.v
    \/ a.kind = "str" /\ b.kind = "str" /\ a.v = b.v

RowSame(r1, r2) ==
    /\ Len(r1) = Len(r2)
    /\ \A c \in 1..Len(r1) : CellSame(r1[c], r2[c])

HasFlash(category) == \E k \in 1..Len(flashes) : flashes[k].category = category
Logged(line) == \E k \in 1..Len(log) : log[k] = line

\* ------------------------------------------------------------------------
\* C1  Retention rule of the service
\* ------------------------------------------------------------------------

\* the positions the rule retains, from the comparison keys alone
RetainedByRule(key) ==
    {i \in 0..(Len(key) - 1) :
        i = 0 \/ \E k \in 1..3 : key[i + 1][k] # key[i][k]}

\* C1: whenever the service's remove_consecutive_duplicates returns, the rows
\* it returns are exactly the input rows at the positions i with i = 0 or a
\* normalized ComparisonKey (columns 1, 2, 6) that differs from that of row
\* i-1 in at least one position, in increasing order of i; the positions are
\* decided by the three key columns alone.
C1_RetentionRule ==
    ServiceReturned =>
        LET key == ComparisonKeys(InputFrame)
        IN  /\ OutIndexSet = RetainedByRule(key)
            /\ \A j \in 1..(Len(OutIndex) - 1) : OutIndex[j] < OutIndex[j + 1]

\* a run of the service that drops a row which differs from its
\* predecessor in column A only, and keeps a row other than the first
C1_Witness ==
    /\ ServiceReturned
    /\ \E i \in 1..(Len(InputFrame.rows) - 1) :
          /\ i \notin OutIndexSet
          /\ InputFrame.rows[i + 1].cells[1] # InputFrame.rows[i].cells[1]
    /\ \E i \in OutIndexSet : i > 0

\* ------------------------------------------------------------------------
\* C2  Null normalization, service and script
\* ------------------------------------------------------------------------

ComparisonColumns == IF prog = "service" THEN {COL_B, COL_C, COL_G} ELSE {COL_B, COL_C}

\* C2: in the service and in the script alike, a row whose comparison
\* columns repeat the previous row's, with a missing value in both rows in
\* at least one comparison column, is dropped as a duplicate.
C2_NullRowsCollapse ==
    Returned =>
        LET df == InputFrame
        IN  \A i \in 2..Len(df.rows) :
              ( /\ \E c \in ComparisonColumns :
                      /\ IsNull(df.rows[i].cells[c + 1])
                      /\ IsNull(df.rows[i - 1].cells[c + 1])
                /\ \A c \in ComparisonColumns :
                      df.rows[i].cells[c + 1] = df.rows[i - 1].cells[c + 1] )
              => (i - 1) \notin OutIndexSet

\* ------------------------------------------------------------------------
\* C3  Run collapse
\* ------------------------------------------------------------------------

\* the maximal runs <<a, b>> (0-based, inclusive) of identical keys
MaximalRuns(key) ==
    LET n == Len(key)
        K(i) == key[i + 1]
        starts == {a \in 0..(n - 1) : a = 0 \/ K(a - 1) # K(a)}
        ends == {b \in 0..(n - 1) : b = n - 1 \/ K(b + 1) # K(b)}
    IN  {r \in starts \X ends :
            r[1] <= r[2] /\ \A i \in r[1]..r[2] : K(i) = K(r[1])}

\* C3: of every maximal run of consecutive rows with an identical normalized
\* ComparisonKey, exactly one row is returned, the first of the run; the
\* number of rows returned is the number of maximal runs.
C3_RunCollapse ==
    ServiceReturned =>
        LET runs == MaximalRuns(ComparisonKeys(InputFrame))
        IN  /\ \A r \in runs :
                 /\ Cardinality({i \in OutIndexSet : r[1] <= i /\ i <= r[2]}) = 1
                 /\ r[1] \in OutIndexSet
            /\ Len(OutIndex) = Cardinality(runs)

\* a run of the service on a dataset with a run of three rows and another run
C3_Witness ==
    /\ ServiceReturned
    /\ \E r \in MaximalRuns(ComparisonKeys(InputFrame)) : r[2] - r[1] >= 2
    /\ Len(OutIndex) >= 2

\* ------------------------------------------------------------------------
\* C4  Compare with row i-1 = compare with the last row kept
\* ------------------------------------------------------------------------

\* the sequential filter: a row is kept when its key differs from the key
\* of the last row kept so far (last = 0: none kept yet)
RECURSIVE SequentialKeep(_, _, _)
SequentialKeep(key, i, last) ==
    IF i > Len(key) THEN {}
    ELSE IF last = 0 \/ key[i] # key[last]
    THEN {i - 1} \cup SequentialKeep(key, i + 1, i)
    ELSE SequentialKeep(key, i + 1, last)

\* C4: the positions retained by the shift(1) mask of the service are the
\* positions a sequential filter retains that compares each row with the
\* last row kept so far.
C4_SameAsLastKept ==
    ServiceReturned =>
        OutIndexSet = SequentialKeep(ComparisonKeys(InputFrame), 1, 0)

\* a dataset where the row before a kept row was dropped, so that "row i-1"
\* and "last row kept" are different rows
C4_Witness ==
    /\ ServiceReturned
    /\ \E i \in OutIndexSet : i >= 2 /\ (i - 1) \notin OutIndexSet

\* ------------------------------------------------------------------------
\* C5  Idempotence
\* ------------------------------------------------------------------------

\* C5: when the output of a run is processed again, the second run removes
\* no row and returns the rows the first run returned.
C5_Idempotent ==
    (Returned /\ run = 2) =>
        /\ result.stats.removed_rows = 0
        /\ Len(result.df_cleaned.rows) = Len(first.df_cleaned.rows)
        /\ \A j \in 1..Len(result.df_cleaned.rows) :
              RowSame(result.df_cleaned.rows[j].cells, first.df_cleaned.rows[j].cells)

\* a second run of the service after a first run that removed rows and
\* returned rows with a missing value in a comparison column
C5_Witness ==
    /\ ServiceReturned
    /\ run = 2
    /\ first.stats.removed_rows > 0
    /\ Len(result.df_cleaned.rows) >= 2
    /\ \E j \in 1..Len(request.file.blocks) :
          IsNull(request.file.blocks[j].row[COL_B + 1])

\* ------------------------------------------------------------------------
\* C6  Cells are never altered
\* ------------------------------------------------------------------------

\* C6: every row returned by the deduplicator equals, cell for cell, the
\* input row at its position (a null stays null, a number stays a number).
C6_CellsUnchanged ==
    Returned =>
        LET df == InputFrame
        IN  \A j \in 1..Len(OutIndex) :
              RowSame(result.df_cleaned.rows[j].cells, df.rows[OutIndex[j] + 1].cells)

\* ------------------------------------------------------------------------
\* C7  Oversize rejection
\* ------------------------------------------------------------------------

FlashedError(msg) ==
    \E k \in 1..Len(flashes) : flashes[k].category = "error" /\ flashes[k].msg = msg

\* C7: a decodable upload of more than 50,000 rows is rejected as too large,
\* whatever its number of columns, before normalization or comparison and
\* with no dataset or stats; one of 50,000 rows or fewer is not rejected as
\* too large, and one of exactly 50,000 rows and 7 columns is processed.
C7_OversizeRejected ==
    (prog = "service" /\ pc = "done" /\ FormOk(request)
       /\ request.file.wellformed = "ok") =>
        LET n == NRows(request.file.blocks)
        IN  /\ (n > MAX_ROWS) <=> FlashedError(TooLargeMsg)
            /\ n > MAX_ROWS =>
                  /\ response = Redirect
                  /\ result.df_cleaned = NoFrame
                  /\ result.stats = NoStats
                  /\ ~Logged("Data types optimized")
                  /\ ~Logged("Duplicate removal completed")
            /\ (n = MAX_ROWS /\ Len(request.file.header) >= SERVICE_MIN_COLS) =>
                  /\ result.stats # NoStats
                  /\ result.stats.initial_rows = MAX_ROWS

\* an upload of 50,001 rows and 6 columns has been rejected as too large
C7_Witness ==
    /\ prog = "service"
    /\ pc = "done"
    /\ NRows(request.file.blocks) = MAX_ROWS + 1
    /\ Len(request.file.header) < SERVICE_MIN_COLS
    /\ FlashedError(TooLargeMsg)

\* an upload of exactly 50,000 rows has been processed
C7_WitnessAtCeiling ==
    /\ ServiceReturned
    /\ result.stats.initial_rows = MAX_ROWS

\* ------------------------------------------------------------------------
\* C8  Minimum-column rejection
\* ------------------------------------------------------------------------

MinCols == IF prog = "service" THEN SERVICE_MIN_COLS ELSE SCRIPT_MIN_COLS

RejectedTooFewColumns ==
    IF prog = "service" THEN FlashedError(TooFewColumnsMsg)
    ELSE \E k \in 1..Len(stdout) :
            stdout[k] = "Warning: The file has fewer than 3 columns. Cannot proceed."

NoOutput ==
    /\ result.df_cleaned = NoFrame
    /\ result.stats = NoStats
    /\ outfile = NoFile
    /\ response.kind # "attachment"

\* the request reaches the deduplicator with a decodable dataset
DatasetHandled ==
    /\ pc = "done"
    /\ request.file.wellformed = "ok"
    /\ prog = "service" => FormOk(request)

\* C8 as stated: a dataset with fewer columns than the minimum (7 in the
\* service, 3 in the script) is rejected as TooFewColumns with no output; one
\* with exactly the minimum is processed.
C8_TooFewColumnsRejected ==
    DatasetHandled =>
        /\ Len(request.file.header) < MinCols => (RejectedTooFewColumns /\ NoOutput)
        /\ Len(request.file.header) = MinCols => (~RejectedTooFewColumns /\ Returned)

\* the dataset is within the service's row ceiling (the script has none)
WithinCeiling == prog = "service" => NRows(request.file.blocks) <= MAX_ROWS

\* C8 amended: a dataset within the row ceiling with fewer columns than the
\* minimum is rejected as TooFewColumns with no output, and one with exactly
\* the minimum is processed; a dataset above the ceiling produces no output
\* either, whatever its columns.
C8_TooFewColumnsRejectedWithinCeiling ==
    DatasetHandled =>
        /\ (WithinCeiling /\ Len(request.file.header) < MinCols) =>
              (RejectedTooFewColumns /\ NoOutput)
        /\ (WithinCeiling /\ Len(request.file.header) = MinCols) =>
              (~RejectedTooFewColumns /\ Returned)
        /\ ~WithinCeiling => (~RejectedTooFewColumns /\ NoOutput)

\* the service has rejected a 6-column dataset of a few rows
C8_Witness ==
    /\ prog = "service"
    /\ DatasetHandled
    /\ Len(request.file.header) = SERVICE_MIN_COLS - 1
    /\ NRows(request.file.blocks) \in 1..MAX_ROWS
    /\ RejectedTooFewColumns
    /\ NoOutput

\* ------------------------------------------------------------------------
\* C9  The two outcomes of an upload
\* ------------------------------------------------------------------------

\* the failure conditions of a request
UploadFails ==
    \/ ~FormOk(request)
    \/ result.exc.type # "none"
    \/ caught.type # "none"

\* C9: a handled upload ends either with the attachment and the success
\* notifications, or, on any failure, with a redirect, an error notification,
\* no attachment and no success notification issued; the form checks come
\* first and in order, and a request they reject never reaches the
\* deduplicator.
C9_TwoOutcomes ==
    (prog = "service" /\ pc = "done") =>
        /\ response.kind \in {"attachment", "redirect"}
        /\ response.kind = "attachment" <=> ~UploadFails
        /\ response.kind = "attachment" =>
              /\ flashes = SuccessFlashes(result.stats)
              /\ response.body.wellformed = "ok"
        /\ response.kind = "redirect" =>
              /\ response = Redirect
              /\ HasFlash("error")
              /\ ~HasFlash("success")
        /\ ~request.has_file => flashes = <<Flash("error", NoFileSelectedMsg, <<>>)>>
        /\ (request.has_file /\ request.filename = <<>>) =>
              flashes = <<Flash("error", NoFileSelectedMsg, <<>>)>>
        /\ (request.has_file /\ request.filename # <<>> /\ ~allowed_file(request.filename)) =>
              flashes = <<Flash("error", InvalidTypeMsg, <<>>)>>
        /\ ~FormOk(request) =>
              (result = NotCalled /\ ~Logged("Starting file processing..."))

\* ------------------------------------------------------------------------
\* C10  Row-count conservation
\* ------------------------------------------------------------------------

\* C10: the stats of every successful deduplication satisfy final_rows +
\* removed_rows = initial_rows, with initial_rows the number of input rows
\* and final_rows the number of rows returned; so 0 <= removed_rows <=
\* initial_rows, and final_rows >= 1 for a non-empty input.
C10_RowCountConservation ==
    Returned =>
        LET st == result.stats
        IN  /\ st.initial_rows = NRows(request.file.blocks)
            /\ st.final_rows = Len(result.df_cleaned.rows)
            /\ st.final_rows + st.removed_rows = st.initial_rows
            /\ 0 <= st.removed_rows
            /\ st.removed_rows <= st.initial_rows
            /\ st.initial_rows > 0 => st.final_rows >= 1
            /\ response.kind = "attachment" =>
                  /\ flashes[1].args = <<st.removed_rows>>
                  /\ flashes[2].args = <<st.initial_rows, st.final_rows>>

\* the scenario of the specification: 6 rows in, 3 out, 3 removed
C10_Witness ==
    /\ ServiceReturned
    /\ request.file = ScenarioFile
    /\ result.stats.initial_rows = 6
    /\ result.stats.final_rows = 3
    /\ result.stats.removed_rows = 3
    /\ OutIndex = <<0, 2, 3>>

====
